---- MODULE Spec2Model ----
(***************************************************************************)
(* The two agent programs of the repository as one state machine:          *)
(*   untyped    src/01-basic-agent/agent.py                                *)
(*   validated  src/01-validated-basic-agent/validated_agent.py            *)
(* A behaviour runs one of the two programs (variable `variant`). The      *)
(* model follows main()'s loop statement by statement; the remote model    *)
(* (completion provider) and the HTTP service behind the handlers are the  *)
(* environment and are drawn nondeterministically from small sets.         *)
(***************************************************************************)
EXTENDS Integers, Sequences, FiniteSets, TLC

VARIABLES
    variant,        \* which program runs: "untyped" | "validated"
    pc,             \* position in main(): "input" | "complete" | "dispatch" | "emit" | "exit"
    messages,       \* main()'s local `messages`: the conversation history
    completion,     \* the provider's answer of the current turn
    results,        \* validated prompt_ai's local `results`
    idx,            \* index of the running for loop (1-based)
    ai_response,    \* untyped main()'s local `ai_response`
    ai_responses,   \* validated main()'s local `ai_responses`
    exitCause,      \* "none" | "quit" | name of the uncaught exception
    raw_input,      \* the line last returned by input()
    history,        \* observation: `messages` as passed to prompt_ai this turn
    invoked,        \* observation: handler invocations of this turn, in order
    printed,        \* observation: values given to print() this turn, in order
    providerCalls,  \* observation: completion-provider calls of this turn
    turns,          \* number of user turns started
    remote,         \* observation: remote calls made by this turn's handlers
    functionsPassed \* observation: the `functions` argument of each completion call

vars == <<variant, pc, messages, completion, results, idx, ai_response,
          ai_responses, exitCause, raw_input, history, invoked, printed,
          providerCalls, turns, remote, functionsPassed>>

(***************************************************************************)
(* Bounds of the model.                                                    *)
(***************************************************************************)
MaxTurns == 2       \* user turns per session
MaxActions == 2     \* actions in one validated completion
MaxTasks == 2       \* pages in one Notion query response

(***************************************************************************)
(* Python values. A str is a sequence of text pieces (an f-string is the   *)
(* concatenation of its pieces), a list a sequence of items.               *)
(***************************************************************************)
PyStr(pieces) == [type |-> "str", val |-> pieces]
PyList(items) == [type |-> "list", val |-> items]
None == [type |-> "none", val |-> <<>>]

\* Outcome of a call: a returned value or a raised exception.
Return(v) == [raised |-> FALSE, exc |-> "", value |-> v]
Raise(e) == [raised |-> TRUE, exc |-> e, value |-> None]

Message(role, content) == [role |-> role, content |-> content]

(***************************************************************************)
(* Terminal input: str.strip() and str.lower() on lines given as           *)
(* sequences of characters.                                                *)
(***************************************************************************)
Whitespace == {" ", "\t"}

RECURSIVE lstrip(_)
lstrip(s) ==
    IF s # <<>> /\ Head(s) \in Whitespace THEN lstrip(Tail(s)) ELSE s

RECURSIVE rstrip(_)
rstrip(s) ==
    IF s # <<>> /\ s[Len(s)] \in Whitespace
    THEN rstrip(SubSeq(s, 1, Len(s) - 1))
    ELSE s

\* A strip that leaves the line as typed.
strip_nothing(s) == s

strip(s) == rstrip(lstrip(s))

lowerChar(c) == IF c = "Q" THEN "q" ELSE IF c = "H" THEN "h" ELSE c

lower(s) == [i \in 1..Len(s) |-> lowerChar(s[i])]

\* The lines the user types in the model.
InputLines ==
    { <<"q">>, <<" ", "Q", " ">>, <<"h", "i">>, <<" ", "h", "i">> }


(***************************************************************************)
(* The HTTP service behind the handlers (requests.post). A call either     *)
(* raises (no connection) or returns a response with a status code.        *)
(***************************************************************************)
HttpRaises == [raised |-> TRUE, status_code |-> 0, text |-> "", results |-> <<>>]

HttpResponse(code, text, pages) ==
    [raised |-> FALSE, status_code |-> code, text |-> text, results |-> pages]

\* A page of the task database: its title parts and its Due property
\* ("absent": no Due/date key, "null": the date key holds null).
Pages ==
    { [title |-> <<"Task 1">>, due |-> "2024-10-15"],
      [title |-> <<"Task 2">>, due |-> "absent"],
      [title |-> <<>>,         due |-> "2024-10-20"],
      [title |-> <<"Task 3">>, due |-> "null"] }

RECURSIVE SeqsUpTo(_, _)
SeqsUpTo(S, n) ==
    IF n = 0 THEN { <<>> }
    ELSE LET shorter == SeqsUpTo(S, n - 1)
         IN  shorter \cup { Append(q, x) : q \in shorter, x \in S }

\* Answers of POST /v1/pages.
PostResponses ==
    { HttpRaises,
      HttpResponse(200, "{\"object\": \"page\"}", <<>>),
      HttpResponse(400, "{\"object\": \"error\"}", <<>>) }

\* Answers of POST /v1/databases/<id>/query.
QueryResponses ==
    { HttpRaises, HttpResponse(401, "{\"object\": \"error\"}", <<>>) }
    \cup { HttpResponse(200, "{\"results\": [...]}", pages) :
             pages \in SeqsUpTo(Pages, MaxTasks) }

HttpOutcomes == PostResponses \cup QueryResponses

(***************************************************************************)
(* Untyped variant: handlers (agent.py).                                   *)
(***************************************************************************)
\* create_notion_task(task_name, due_on): the body sent does not influence
\* the value returned, only the response does.
create_notion_task(task_name, due_on, response) ==
    IF response.raised THEN Raise("ConnectionError")
    ELSE IF response.status_code = 200
         THEN Return(PyStr(<<"Task successfully created in Notion!">>))
         ELSE Return(PyStr(<<"Failed to create task: ", response.text>>))

\* One iteration of the loop over tasks["results"].
task_entry(result) ==
    IF result.title = <<>> THEN Raise("IndexError")
    ELSE IF result.due = "null" THEN Raise("AttributeError")
    ELSE LET task_name == result.title[1]
             due_date == IF result.due = "absent" THEN "No due date" ELSE result.due
         IN  Return(<<task_name, " - Due: ", due_date>>)

RECURSIVE task_list(_)
task_list(pages) ==
    IF pages = <<>> THEN Return(<<>>)
    ELSE LET first == task_entry(Head(pages))
         IN  IF first.raised THEN first
             ELSE LET rest == task_list(Tail(pages))
                  IN  IF rest.raised THEN rest
                      ELSE Return(<<first.value>> \o rest.value)

get_notion_tasks(response) ==
    IF response.raised THEN Raise("ConnectionError")
    ELSE IF response.status_code = 200
         THEN LET built == task_list(response.results)
              IN  IF built.raised THEN built ELSE Return(PyList(built.value))
         ELSE Return(PyStr(<<"Failed to retrieve tasks: ", response.text>>))

\* A get_tools over a list kept between calls, to which every call adds the
\* descriptors again.
get_tools_accumulating ==
    LET tools ==
          << [name |-> "create_notion_task", required |-> {"task_name"},
              properties |-> {"task_name", "due_on"}],
             [name |-> "get_notion_tasks", required |-> {}, properties |-> {}] >>
    IN  IF turns > 1 THEN tools \o tools ELSE tools

\* get_tools(): the descriptors, in order.
get_tools ==
    << [name |-> "create_notion_task", required |-> {"task_name"},
        properties |-> {"task_name", "due_on"}],
       [name |-> "get_notion_tasks", required |-> {}, properties |-> {}] >>

\* The handler table of prompt_ai.
available_functions == {"create_notion_task", "get_notion_tasks"}

\* json.loads on the argument payloads the model sends in the model.
RawArguments ==
    { "{}",
      "{\"task_name\": \"Finish project\"}",
      "{\"task_name\": \"Finish project\", \"due_on\": \"2024-10-15\"}",
      "{\"due_on\": \"2024-10-15\"}",
      "{\"task_name\": " }

json_loads(payload) ==
    CASE payload = "{}" -> Return(<<>>)
      [] payload = "{\"task_name\": \"Finish project\"}"
            -> Return("task_name" :> "Finish project")
      [] payload = "{\"task_name\": \"Finish project\", \"due_on\": \"2024-10-15\"}"
            -> Return("task_name" :> "Finish project" @@ "due_on" :> "2024-10-15")
      [] payload = "{\"due_on\": \"2024-10-15\"}"
            -> Return("due_on" :> "2024-10-15")
      [] OTHER -> Raise("JSONDecodeError")

\* available_functions[function_name](**function_args): the lookup, the
\* binding of the keyword arguments and the call. `found` tells whether a
\* handler was entered.
call_function(function_name, function_args, response) ==
    IF function_name \notin available_functions
    THEN [found |-> FALSE, outcome |-> Raise("KeyError")]
    ELSE IF function_name = "create_notion_task"
    THEN IF "task_name" \in DOMAIN function_args
            /\ DOMAIN function_args \subseteq {"task_name", "due_on"}
         THEN [found |-> TRUE,
               outcome |-> create_notion_task(
                   function_args["task_name"],
                   IF "due_on" \in DOMAIN function_args
                   THEN function_args["due_on"] ELSE "today",
                   response)]
         ELSE [found |-> FALSE, outcome |-> Raise("TypeError")]
    ELSE IF DOMAIN function_args = {}
         THEN [found |-> TRUE, outcome |-> get_notion_tasks(response)]
         ELSE [found |-> FALSE, outcome |-> Raise("TypeError")]

\* The answers of openai.ChatCompletion.create: a message with content, or
\* a message with a function call.
NoFunctionCall == [present |-> FALSE, name |-> "", arguments |-> ""]

FunctionNames == {"create_notion_task", "get_notion_tasks", "delete_notion_task"}

ResponseMessages ==
    { [content |-> PyStr(<<"Hello! How can I help?">>), function_call |-> NoFunctionCall] }
    \cup { [content |-> None,
            function_call |-> [present |-> TRUE, name |-> n, arguments |-> a]] :
             n \in FunctionNames, a \in RawArguments }

\* A variant of prompt_ai that appends the value it returns on every path,
\* the direct reply included.
untyped_prompt_ai_appends_reply(msgs, response_message, response) ==
    LET tool_calls == response_message.function_call
        function_args == json_loads(tool_calls.arguments)
        call == call_function(tool_calls.name, function_args.value, response)
        function_response ==
            IF ~tool_calls.present THEN Return(response_message.content)
            ELSE IF function_args.raised THEN function_args
            ELSE call.outcome
        entered ==
            IF tool_calls.present /\ ~function_args.raised /\ call.found
            THEN <<tool_calls.name>> ELSE <<>>
    IN  [outcome |-> function_response,
         messages |-> IF function_response.raised THEN msgs
                      ELSE Append(msgs, Message("assistant", function_response.value)),
         invoked |-> entered]

\* prompt_ai from the line after the completion call: the value returned
\* or the exception raised, the history as left, the handlers entered.
untyped_prompt_ai(msgs, response_message, response) ==
    LET tool_calls == response_message.function_call
    IN  IF tool_calls.present
        THEN LET function_name == tool_calls.name
                 function_args == json_loads(tool_calls.arguments)
             IN  IF function_args.raised
                 THEN [outcome |-> function_args, messages |-> msgs, invoked |-> <<>>]
                 ELSE LET call == call_function(function_name, function_args.value, response)
                          function_response == call.outcome
                          entered == IF call.found THEN <<function_name>> ELSE <<>>
                      IN  IF function_response.raised
                          THEN [outcome |-> function_response, messages |-> msgs,
                                invoked |-> entered]
                          ELSE [outcome |-> function_response,
                                messages |-> Append(msgs,
                                    Message("assistant", function_response.value)),
                                invoked |-> entered]
        ELSE [outcome |-> Return(response_message.content), messages |-> msgs,
              invoked |-> <<>>]


(***************************************************************************)
(* Validated variant: action models and handlers (validated_agent.py).     *)
(***************************************************************************)
HaikuRequest(text, title) == [type |-> "HaikuRequest", text |-> text, title |-> title]
WeatherRequest(location) == [type |-> "WeatherRequest", location |-> location]

\* ActionModel.actions: List[Union[HaikuRequest, WeatherRequest]]. The
\* instances a validated completion can carry in the model.
ActionInstances ==
    { HaikuRequest("An old silent pond", "Haiku"), WeatherRequest("Paris") }

ActionModels == SeqsUpTo(ActionInstances, MaxActions)

\* A handle_haiku_request that does not look at the status code.
handle_haiku_request_ignores_status(request, response) ==
    IF response.raised THEN Raise("ConnectionError")
    ELSE Return(PyStr(<<"Haiku successfully inserted in Notion!">>))

handle_haiku_request(request, response) ==
    IF response.raised THEN Raise("ConnectionError")
    ELSE IF response.status_code = 200
         THEN Return(PyStr(<<"Haiku successfully inserted in Notion!">>))
         ELSE Return(PyStr(<<"Failed to insert haiku: ", ToString(response.status_code)>>))

handle_weather_request(request) ==
    Return(PyStr(<<"Retrieved weather data for ", request.location, ".">>))

\* A handler table that lacks the entry of WeatherRequest.
actions_dispatch_without_weather == {"HaikuRequest"}

\* AIAssistant.actions_dispatch: the types that have a handler, and the call
\* of the handler of a type.
actions_dispatch == {"HaikuRequest", "WeatherRequest"}

dispatch_handler(action, response) ==
    IF action.type = "HaikuRequest"
    THEN handle_haiku_request(action, response)
    ELSE handle_weather_request(action)

\* One iteration of prompt_ai's loop over completion.actions: the result
\* appended (or the exception raised) and the handlers entered.
dispatch_action(action, response) ==
    LET action_type == action.type
    IN  IF action_type \in actions_dispatch
        THEN [outcome |-> dispatch_handler(action, response), invoked |-> <<action_type>>]
        ELSE [outcome |-> Return(PyStr(<<"No handler found for action type: ", action_type>>)),
              invoked |-> <<>>]

(***************************************************************************)
(* The state machine.                                                      *)
(***************************************************************************)
\* The handlers that call the remote service (requests.post), and what a
\* step records of the call its handler made: the request served, whether
\* the call raised, the status code received.
RemoteHandlers == {"create_notion_task", "get_notion_tasks", "HaikuRequest"}

RemoteCalls(entered, request_index, response) ==
    IF entered # <<>> /\ entered[1] \in RemoteHandlers
    THEN << [request |-> request_index, raised |-> response.raised,
             status_code |-> response.status_code] >>
    ELSE <<>>

SystemPrompt(v) ==
    IF v = "untyped"
    THEN PyStr(<<"You are a task management assistant connected to Notion. The current date is: ", "2024-10-14">>)
    ELSE PyStr(<<"You are an assistant that can create haikus and retrieve weather data. The current date is: ", "2024-10-14">>)

Init ==
    /\ variant \in {"untyped", "validated"}
    /\ pc = "input"
    /\ messages = << Message("system", SystemPrompt(variant)) >>
    /\ completion = None
    /\ results = <<>>
    /\ idx = 1
    /\ ai_response = None
    /\ ai_responses = <<>>
    /\ exitCause = "none"
    /\ raw_input = <<>>
    /\ history = <<>>
    /\ invoked = <<>>
    /\ printed = <<>>
    /\ providerCalls = 0
    /\ turns = 0
    /\ remote = <<>>
    /\ functionsPassed = <<>>

\* A ReadInput that does not append the user entry before prompt_ai.
ReadInput_without_user_entry(line) ==
    LET user_input == strip(line)
    IN  /\ pc = "input"
        /\ raw_input' = line
        /\ completion' = None
        /\ results' = <<>>
        /\ idx' = 1
        /\ ai_response' = None
        /\ ai_responses' = <<>>
        /\ history' = <<>>
        /\ invoked' = <<>>
        /\ printed' = <<>>
        /\ providerCalls' = 0
        /\ remote' = <<>>
        /\ \/ /\ lower(user_input) = <<"q">>
              /\ pc' = "exit"
              /\ exitCause' = "quit"
              /\ UNCHANGED turns
           \/ /\ lower(user_input) # <<"q">>
              /\ turns < MaxTurns
              /\ pc' = "complete"
              /\ turns' = turns + 1
              /\ UNCHANGED exitCause
        /\ UNCHANGED <<variant, messages, functionsPassed>>

\* main(): input(...).strip(), the quit test, the append of the user entry
\* and the entry into prompt_ai. The per-turn locals and observations start
\* afresh.
ReadInput(line) ==
    LET user_input == strip(line)
    IN  /\ pc = "input"
        /\ raw_input' = line
        /\ completion' = None
        /\ results' = <<>>
        /\ idx' = 1
        /\ ai_response' = None
        /\ ai_responses' = <<>>
        /\ history' = <<>>
        /\ invoked' = <<>>
        /\ printed' = <<>>
        /\ providerCalls' = 0
        /\ remote' = <<>>
        /\ \/ /\ lower(user_input) = <<"q">>
              /\ pc' = "exit"
              /\ exitCause' = "quit"
              /\ UNCHANGED <<messages, turns>>
           \/ /\ lower(user_input) # <<"q">>
              /\ turns < MaxTurns
              /\ messages' = Append(messages, Message("user", PyStr(user_input)))
              /\ pc' = "complete"
              /\ turns' = turns + 1
              /\ UNCHANGED exitCause
        /\ UNCHANGED <<variant, functionsPassed>>

UntypedReadInput ==
    /\ variant = "untyped"
    /\ \E line \in InputLines : ReadInput(line)

ValidatedReadInput ==
    /\ variant = "validated"
    /\ \E line \in InputLines : ReadInput(line)

\* prompt_ai, untyped: the call of openai.ChatCompletion.create.
UntypedComplete ==
    /\ variant = "untyped"
    /\ pc = "complete"
    /\ \E response_message \in ResponseMessages : completion' = response_message
    /\ functionsPassed' = Append(functionsPassed, get_tools)
    /\ history' = messages
    /\ providerCalls' = providerCalls + 1
    /\ pc' = "dispatch"
    /\ UNCHANGED <<variant, messages, results, idx, ai_response, ai_responses,
                   exitCause, raw_input, invoked, printed, turns, remote>>

\* prompt_ai, untyped: from the completion to the return (or the exception,
\* which nothing catches: the process ends).
UntypedDispatch ==
    /\ variant = "untyped"
    /\ pc = "dispatch"
    /\ \E response \in HttpOutcomes :
         LET call == untyped_prompt_ai(messages, completion, response)
         IN  /\ messages' = call.messages
             /\ invoked' = invoked \o call.invoked
             /\ remote' = remote \o RemoteCalls(call.invoked, 1, response)
             /\ IF call.outcome.raised
                THEN /\ pc' = "exit"
                     /\ exitCause' = call.outcome.exc
                     /\ UNCHANGED ai_response
                ELSE /\ pc' = "emit"
                     /\ ai_response' = call.outcome.value
                     /\ UNCHANGED exitCause
    /\ UNCHANGED <<variant, completion, results, idx, ai_responses, raw_input,
                   history, printed, providerCalls, turns, functionsPassed>>

\* An UntypedEmit that stores the reply over the last entry of the history.
UntypedEmit_overwrites_last ==
    /\ variant = "untyped"
    /\ pc = "emit"
    /\ printed' = Append(printed, ai_response)
    /\ messages' = [messages EXCEPT ![Len(messages)] = Message("assistant", ai_response)]
    /\ pc' = "input"
    /\ UNCHANGED <<variant, completion, results, idx, ai_response, ai_responses,
                   exitCause, raw_input, history, invoked, providerCalls, turns,
                   remote, functionsPassed>>

\* main(), untyped: print(ai_response) and the append of the reply.
UntypedEmit ==
    /\ variant = "untyped"
    /\ pc = "emit"
    /\ printed' = Append(printed, ai_response)
    /\ messages' = Append(messages, Message("assistant", ai_response))
    /\ pc' = "input"
    /\ UNCHANGED <<variant, completion, results, idx, ai_response, ai_responses,
                   exitCause, raw_input, history, invoked, providerCalls, turns, remote, functionsPassed>>

\* prompt_ai, validated: the structured completion. It returns an
\* ActionModel, or raises when the answer fails validation after the
\* client's retries.
ValidatedComplete ==
    /\ variant = "validated"
    /\ pc = "complete"
    /\ history' = messages
    /\ providerCalls' = providerCalls + 1
    /\ \/ /\ \E actions \in ActionModels :
                completion' = [raised |-> FALSE, actions |-> actions]
          /\ pc' = "dispatch"
          /\ UNCHANGED exitCause
       \/ /\ completion' = [raised |-> TRUE, actions |-> <<>>]
          /\ pc' = "exit"
          /\ exitCause' = "InstructorRetryException"
    /\ results' = <<>>
    /\ idx' = 1
    /\ UNCHANGED <<variant, messages, ai_response, ai_responses, raw_input,
                   invoked, printed, turns, remote, functionsPassed>>

\* prompt_ai, validated: one iteration of `for action in completion.actions`.
ValidatedDispatch ==
    /\ variant = "validated"
    /\ pc = "dispatch"
    /\ idx <= Len(completion.actions)
    /\ \E response \in PostResponses :
         LET step == dispatch_action(completion.actions[idx], response)
         IN  /\ invoked' = invoked \o step.invoked
             /\ remote' = remote \o RemoteCalls(step.invoked, idx, response)
             /\ IF step.outcome.raised
                THEN /\ pc' = "exit"
                     /\ exitCause' = step.outcome.exc
                     /\ UNCHANGED <<results, idx>>
                ELSE /\ results' = Append(results, step.outcome.value)
                     /\ idx' = idx + 1
                     /\ UNCHANGED <<pc, exitCause>>
    /\ UNCHANGED <<variant, messages, completion, ai_response, ai_responses,
                   raw_input, history, printed, providerCalls, turns, functionsPassed>>

\* prompt_ai, validated: `return results`, received by main() as ai_responses.
ValidatedReturn ==
    /\ variant = "validated"
    /\ pc = "dispatch"
    /\ idx > Len(completion.actions)
    /\ ai_responses' = results
    /\ pc' = "emit"
    /\ idx' = 1
    /\ UNCHANGED <<variant, messages, completion, results, ai_response, exitCause,
                   raw_input, history, invoked, printed, providerCalls, turns, remote, functionsPassed>>

\* main(), validated: one iteration of `for response in ai_responses`.
ValidatedEmit ==
    /\ variant = "validated"
    /\ pc = "emit"
    /\ idx <= Len(ai_responses)
    /\ printed' = Append(printed, ai_responses[idx])
    /\ messages' = Append(messages, Message("assistant", ai_responses[idx]))
    /\ idx' = idx + 1
    /\ UNCHANGED <<variant, pc, completion, results, ai_response, ai_responses,
                   exitCause, raw_input, history, invoked, providerCalls, turns, remote, functionsPassed>>

\* main(), validated: the for loop is exhausted, back to `while True`.
ValidatedLoop ==
    /\ variant = "validated"
    /\ pc = "emit"
    /\ idx > Len(ai_responses)
    /\ pc' = "input"
    /\ UNCHANGED <<variant, messages, completion, results, idx, ai_response,
                   ai_responses, exitCause, raw_input, history, invoked, printed,
                   providerCalls, turns, remote, functionsPassed>>

Next ==
    \/ UntypedReadInput
    \/ UntypedComplete
    \/ UntypedDispatch
    \/ UntypedEmit
    \/ ValidatedReadInput
    \/ ValidatedComplete
    \/ ValidatedDispatch
    \/ ValidatedReturn
    \/ ValidatedEmit
    \/ ValidatedLoop

Spec == Init /\ [][Next]_vars


(***************************************************************************)
(* Vocabulary of the properties.                                           *)
(***************************************************************************)
\* The provider has answered in the current turn.
Answered == completion # None

\* The provider's answer asks for actions (any number, zero included).
DispatchingTurn ==
    /\ Answered
    /\ IF variant = "untyped" THEN completion.function_call.present
       ELSE ~completion.raised

\* The action requests of the current turn, in the order received.
Requests ==
    IF variant = "untyped" THEN << completion.function_call >> ELSE completion.actions

\* prompt_ai is over: it has returned or raised.
DispatchOver == pc \in {"emit", "input", "exit"}

\* The turn has run to its end and the loop waits for the next line.
TurnCompleted == pc = "input" /\ Answered

\* What prompt_ai returned to main(), as a list.
Returned == IF variant = "untyped" THEN << ai_response >> ELSE ai_responses

\* The entries appended to the history since prompt_ai was called.
AppendedThisTurn == SubSeq(messages, Len(history) + 1, Len(messages))

NoHandlerFound(name) == PyStr(<<"No handler found for action type: ", name>>)

RequestName(request) == IF variant = "untyped" THEN request.name ELSE request.type

HandlerTable == IF variant = "untyped" THEN available_functions ELSE actions_dispatch

\* The keyword arguments of an untyped request can be deserialized.
Deserializable(request) ==
    variant = "untyped" => ~json_loads(request.arguments).raised

\* The request names a handler and its arguments reach it.
Resolvable(request) ==
    /\ RequestName(request) \in HandlerTable
    /\ variant = "untyped" =>
         /\ ~json_loads(request.arguments).raised
         /\ call_function(request.name, json_loads(request.arguments).value,
                          HttpRaises).found

\* The values a request can produce when its handler returns.
OutcomesOf(request) ==
    IF RequestName(request) \notin HandlerTable
    THEN { NoHandlerFound(RequestName(request)) }
    ELSE LET outs ==
               IF variant = "untyped"
               THEN { IF request.name = "create_notion_task"
                      THEN create_notion_task("Finish project", "today", r)
                      ELSE get_notion_tasks(r) : r \in HttpOutcomes }
               ELSE { IF request.type = "HaikuRequest"
                      THEN handle_haiku_request(request, r)
                      ELSE handle_weather_request(request) : r \in PostResponses }
         IN  { o.value : o \in { x \in outs : ~x.raised } }

RECURSIVE SelectNames(_)
SelectNames(requests) ==
    IF requests = <<>> THEN <<>>
    ELSE (IF Resolvable(Head(requests)) THEN << RequestName(Head(requests)) >> ELSE <<>>)
         \o SelectNames(Tail(requests))

Exceptions ==
    {"JSONDecodeError", "KeyError", "TypeError", "ConnectionError", "IndexError",
     "AttributeError", "InstructorRetryException"}

\* The exceptions raised from inside a handler.
HandlerExceptions == {"ConnectionError", "IndexError", "AttributeError"}

(***************************************************************************)
(* C1. For every dispatching turn with N >= 0 requests, once prompt_ai is  *)
(* over it has returned exactly N results and the i-th result is the       *)
(* outcome of the i-th request.                                            *)
(***************************************************************************)
C1_DispatchReturnsOneResultPerRequest ==
    (DispatchingTurn /\ DispatchOver) =>
        /\ pc # "exit"
        /\ Len(Returned) = Len(Requests)
        /\ \A i \in 1..Len(Requests) : Returned[i] \in OutcomesOf(Requests[i])

(***************************************************************************)
(* C2. A request whose name has no entry in the handler table never        *)
(* raises: it yields the result "No handler found for action type: <name>" *)
(* at its position, and no handler is entered for it.                      *)
(***************************************************************************)
C2_UnknownActionYieldsNoHandlerResult ==
    (DispatchingTurn /\ DispatchOver) =>
        \A i \in 1..Len(Requests) :
            (RequestName(Requests[i]) \notin HandlerTable /\ Deserializable(Requests[i])) =>
                /\ pc # "exit"
                /\ Len(Returned) >= i
                /\ Returned[i] = NoHandlerFound(RequestName(Requests[i]))

(***************************************************************************)
(* C3. Untyped variant, direct reply: no handler is entered in the turn,   *)
(* prompt_ai returns the reply and leaves the history as it got it, the    *)
(* reply is the one value printed, and at the end of the turn the history  *)
(* is the one passed to prompt_ai (ending with the user entry) plus one    *)
(* assistant entry carrying the reply. The turn never ends the process.    *)
(***************************************************************************)
DirectReplyTurn ==
    variant = "untyped" /\ Answered /\ ~completion.function_call.present

C3_DirectReplyNoHandlerOneEntry ==
    DirectReplyTurn =>
        /\ invoked = <<>>
        /\ pc \in {"dispatch", "emit", "input"}
        /\ history[Len(history)] = Message("user", PyStr(strip(raw_input)))
        /\ pc = "dispatch" => messages = history /\ printed = <<>>
        /\ pc = "emit" =>
             /\ ai_response = completion.content
             /\ messages = history
             /\ printed = <<>>
        /\ pc = "input" =>
             /\ printed = << completion.content >>
             /\ messages = Append(history, Message("assistant", completion.content))

C3_Witness == DirectReplyTurn /\ pc = "input" /\ Len(printed) = 1

(***************************************************************************)
(* C4. Within one dispatching turn, once prompt_ai is over, the handler    *)
(* invocations are the resolvable requests in the order received, one      *)
(* invocation each.                                                        *)
(***************************************************************************)
C4_OneInvocationPerResolvableRequest ==
    (DispatchingTurn /\ DispatchOver) => invoked = SelectNames(Requests)

(***************************************************************************)
(* C5. At the end of a dispatching turn with N requests, the entries       *)
(* appended after the user entry are exactly the N results, once each, in  *)
(* request order.                                                          *)
(***************************************************************************)
C5_EachResultAppendedOnce ==
    (DispatchingTurn /\ TurnCompleted) =>
        /\ Len(Returned) = Len(Requests)
        /\ AppendedThisTurn = [i \in 1..Len(Returned) |-> Message("assistant", Returned[i])]

(***************************************************************************)
(* C6. Every completed turn has printed at least one line.                 *)
(***************************************************************************)
C6_EveryTurnPrints == TurnCompleted => Len(printed) >= 1

(***************************************************************************)
(* C7. The loop ends only on the quit signal.                              *)
(***************************************************************************)
C7_LoopEndsOnlyOnQuit == pc = "exit" => exitCause = "quit"

(***************************************************************************)
(* C8. A handler that raises does not end the turn: the process never      *)
(* ends with an exception raised inside a handler, and every request of    *)
(* the turn still gets a result.                                           *)
(***************************************************************************)
C8_HandlerFailureYieldsResult ==
    (DispatchingTurn /\ DispatchOver /\ invoked # <<>>) =>
        /\ exitCause \notin HandlerExceptions
        /\ Len(Returned) = Len(Requests)

(***************************************************************************)
(* C9. Validated variant: when the structured completion fails validation, *)
(* no handler is entered and the turn prints exactly one error line.       *)
(***************************************************************************)
C9_ValidationFailureOneErrorOutput ==
    (variant = "validated" /\ Answered /\ completion.raised) =>
        /\ invoked = <<>>
        /\ Len(printed) = 1

(***************************************************************************)
(* C10. Untyped variant: when the arguments of the function call cannot be *)
(* deserialized, no handler is entered, the failure is the one line        *)
(* printed for the turn and the loop goes on to the next input.            *)
(***************************************************************************)
C10_MalformedArgumentsSurfaced ==
    (variant = "untyped" /\ DispatchingTurn /\ DispatchOver
        /\ json_loads(completion.function_call.arguments).raised) =>
        /\ invoked = <<>>
        /\ pc # "exit"
        /\ pc = "input" => Len(printed) = 1


(***************************************************************************)
(* Vocabulary of the properties (continued).                               *)
(***************************************************************************)
IsPrefix(a, b) == Len(a) <= Len(b) /\ SubSeq(b, 1, Len(a)) = a

\* The positions of a line that hold no whitespace.
Inked(line) == { i \in 1..Len(line) : line[i] \notin {" ", "\t"} }

Lowest(S) == CHOOSE i \in S : \A j \in S : i <= j
Highest(S) == CHOOSE i \in S : \A j \in S : j <= i

\* The line without its surrounding whitespace.
TrimmedLine(line) ==
    IF Inked(line) = {} THEN <<>>
    ELSE SubSeq(line, Lowest(Inked(line)), Highest(Inked(line)))

\* The line is the quit signal: q, in either case, between whitespace.
IsQuitLine(line) == TrimmedLine(line) \in { <<"q">>, <<"Q">> }

UserEntry == Message("user", PyStr(TrimmedLine(raw_input)))

\* The remote calls of this turn that returned a failure status.
FailedCalls ==
    { k \in 1..Len(remote) : ~remote[k].raised /\ remote[k].status_code # 200 }

SuccessMessages ==
    { PyStr(<<"Task successfully created in Notion!">>),
      PyStr(<<"Haiku successfully inserted in Notion!">>) }

FailureIndicators ==
    { "Failed to create task: ", "Failed to retrieve tasks: ", "Failed to insert haiku: " }

IsFailureMessage(v) ==
    v.type = "str" /\ v.val # <<>> /\ v.val[1] \in FailureIndicators

(***************************************************************************)
(* C11. When the remote call of a handler returns a status other than 200, *)
(* the request has a result, the result is a failure message and not a     *)
(* success message, and the failure status does not end the process: the   *)
(* untyped turn goes on to print and to the next input, the validated      *)
(* dispatch goes on to the next request, and at the end of the turn the    *)
(* failure message is the entry of that request in the history. (The       *)
(* process ends in such a turn only when the remote call of a later        *)
(* request raises.)                                                        *)
(***************************************************************************)
ResultOf(i) == IF variant = "untyped" THEN ai_response ELSE results[i]

C12_PromptAiLeavesHistoryUnchanged ==
    (pc = "emit" /\ printed = <<>>) => messages = history

(***************************************************************************)
(* C13. The history always starts with the system entry and holds no other *)
(* system entry, and every step leaves the history it found as a prefix of *)
(* the history it leaves.                                                  *)
(***************************************************************************)
SingleSystemEntry ==
    /\ Len(messages) >= 1
    /\ messages[1].role = "system"
    /\ \A i \in 2..Len(messages) : messages[i].role # "system"

C13_HistoryAppendOnly ==
    /\ []SingleSystemEntry
    /\ [][IsPrefix(messages, messages')]_vars

C13_Witness == turns = 2 /\ pc = "input" /\ Len(messages) >= 5

(***************************************************************************)
(* C14. Reading a line that is q after trimming and ignoring case ends the *)
(* loop, leaves the history as it is and calls no provider; reading any    *)
(* other line appends exactly one user entry holding the trimmed line and  *)
(* enters prompt_ai, which calls the provider once: the history holds one  *)
(* user entry per turn started and no turn has a second provider call.     *)
(***************************************************************************)
UserEntries == { i \in 1..Len(messages) : messages[i].role = "user" }

ReadStepAsClaimed ==
    (pc = "input" /\ pc' # "input") =>
        IF IsQuitLine(raw_input')
        THEN /\ pc' = "exit"
             /\ exitCause' = "quit"
             /\ messages' = messages
             /\ providerCalls' = 0
             /\ turns' = turns
        ELSE /\ pc' = "complete"
             /\ messages' = Append(messages, Message("user", PyStr(TrimmedLine(raw_input'))))
             /\ providerCalls' = 0
             /\ turns' = turns + 1

OneProviderCallPerTurn ==
    /\ Cardinality(UserEntries) = turns
    /\ providerCalls = IF Answered \/ pc \in {"dispatch", "emit"} THEN 1 ELSE 0
    /\ (pc = "exit" /\ exitCause = "quit") => IsQuitLine(raw_input)

C14_QuitOrOneUserEntry ==
    /\ []OneProviderCallPerTurn
    /\ [][ReadStepAsClaimed]_vars

C14_Witness ==
    /\ pc = "exit"
    /\ exitCause = "quit"
    /\ raw_input = <<" ", "Q", " ">>
    /\ turns >= 1

(***************************************************************************)
(* C15. Every completion call of a session is given the same descriptors   *)
(* in the same order: create_notion_task, then get_notion_tasks.           *)
(***************************************************************************)
C15_GetToolsIdempotent ==
    \A i \in 1..Len(functionsPassed) :
        /\ functionsPassed[i] = functionsPassed[1]
        /\ [n \in 1..Len(functionsPassed[i]) |-> functionsPassed[i][n].name]
             = <<"create_notion_task", "get_notion_tasks">>

C15_Witness == Len(functionsPassed) >= 2 /\ pc = "dispatch"

(***************************************************************************)
(* C16. Every value printed and every content stored in the history is a   *)
(* single string.                                                          *)
(***************************************************************************)
C16_ResultsAreStrings ==
    /\ \A i \in 1..Len(messages) : messages[i].content.type = "str"
    /\ \A i \in 1..Len(printed) : printed[i].type = "str"

(***************************************************************************)
(* C17. Untyped variant: a completed dispatching turn has called the       *)
(* completion provider twice, a completed direct-reply turn once.          *)
(***************************************************************************)
C17_SecondRoundTrip ==
    (variant = "untyped" /\ TurnCompleted) =>
        providerCalls = IF completion.function_call.present THEN 2 ELSE 1

(***************************************************************************)
(* C18. The history handed to the completion provider ends with the user   *)
(* entry of the line just read; no handler runs before that entry is in    *)
(* the history; and everything the turn adds to the history (results,      *)
(* reply) comes after it.                                                  *)
(***************************************************************************)
C18_UserEntryBeforeProviderAndHandlers ==
    /\ pc = "complete" => messages[Len(messages)] = UserEntry
    /\ providerCalls >= 1 =>
         /\ history[Len(history)] = UserEntry
         /\ IsPrefix(history, messages)
         /\ \A i \in (Len(history) + 1)..Len(messages) : messages[i].role = "assistant"
    /\ (invoked # <<>> \/ printed # <<>>) => providerCalls >= 1

C18_Witness == turns = 2 /\ invoked # <<>> /\ pc = "input" /\ Len(printed) >= 1

(***************************************************************************)
(* C19. Validated variant: every action type the schema admits has an      *)
(* entry in the handler table, every action of a validated completion is   *)
(* dispatched to its handler, and no result or history entry is the text   *)
(* "No handler found for action type: ...".                                *)
(***************************************************************************)
SchemaTypes == { a.type : a \in ActionInstances }

IsNoHandlerText(v) ==
    v.type = "str" /\ v.val # <<>> /\ v.val[1] = "No handler found for action type: "

C19_HandlerTableCoversSchema ==
    variant = "validated" =>
        /\ SchemaTypes \subseteq actions_dispatch
        /\ \A i \in 1..Len(results) :
             /\ ~IsNoHandlerText(results[i])
             /\ i <= Len(invoked)
             /\ invoked[i] = completion.actions[i].type
        /\ \A i \in 1..Len(messages) : ~IsNoHandlerText(messages[i].content)

C19_Witness ==
    /\ variant = "validated"
    /\ TurnCompleted
    /\ Len(results) = 2
    /\ \E i \in 1..2 : completion.actions[i].type = "WeatherRequest"

====
